---- MODULE Spec2Model ----
(***************************************************************************)
(* Model of src/src/graph_algorithms.cpp: the UnionFind class and the      *)
(* batch entry points built on it.  Every entry point is a pure function   *)
(* of its arguments; a call is one action that stores the arguments and    *)
(* the returned value.                                                     *)
(***************************************************************************)
EXTENDS Integers, Sequences, FiniteSets, TLC

VARIABLES
    edges,      \* IntegerMatrix edges: sequence of <<from, to>>, 1-based
    n_nodes,    \* int n_nodes
    data,       \* Rcpp::List data: the columns given to multi_column_group_cpp
    op,         \* entry point of the last call ("none" before any call)
    args,       \* the other arguments of the last call
    ret,        \* value returned by the last call
    locals      \* the call's working structures as they are at return

vars == <<edges, n_nodes, data, op, args, ret, locals>>

\* ---------------------------------------------------------------- bounds
MaxNodes == 4      \* n_nodes of the component labeller
MaxEdges == 2      \* rows of its edge matrix
QNodes == 3        \* n_nodes of the query engine
QEdges == 2        \* rows of its edge matrix
MaxQueries == 2    \* rows of query_pairs
MaxDist == 2       \* largest max_distance
MaxCols == 2       \* columns of data
MaxRows == 3       \* length of a column
MaxIncomp == 1     \* length of incomparables
MaxStrings == 1    \* strings of a matching batch
MaxStrLen == 2     \* bytes of a string
MaxPatterns == 2   \* patterns of a pattern set
MaxPatLen == 2     \* bytes of a pattern
StatNodes == 3     \* n_nodes of graph_stats
StatEdges == 2     \* rows of its edge matrix
MaxNeg == 2        \* n_nodes is at least -MaxNeg
UFNodes == 4       \* elements of a UnionFind object used on its own

\* std::vector<T> v(n) with int n < 0: n converts to a size_type above
\* max_size(), and the constructor throws std::length_error, or
\* std::bad_alloc from the allocator where the library does not check the
\* length first.  Rcpp turns either into an R error; nothing is returned.
NegativeSize(n) == n < 0

\* the constructor returning an empty vector instead of throwing
VectorTooLong_empty == {<<>>}

\* what the constructor throws
VectorTooLong == {[error |-> "std::length_error"], [error |-> "std::bad_alloc"]}

\* ------------------------------------------------------------ UnionFind
\* UnionFind(int n): parent[i] = i, rank[i] = 0, for n >= 0; with n < 0 the
\* constructor of parent throws (NegativeSize, VectorTooLong)
UnionFind(n) ==
    [parent |-> [i \in 0..(n - 1) |-> i], rank |-> [i \in 0..(n - 1) |-> 0]]

\* int find(int x), with path compression; returns the structure and the root
RECURSIVE find(_, _)
find(uf, x) ==
    IF uf.parent[x] # x
    THEN LET r == find(uf, uf.parent[x])
         IN  [uf |-> [r.uf EXCEPT !.parent[x] = r.ret], ret |-> r.ret]
    ELSE [uf |-> uf, ret |-> uf.parent[x]]

\* union_sets without the branch that attaches a lower-rank x root
union_sets_no_lower(uf, x, y) ==
    LET fx == find(uf, x)
        fy == find(fx.uf, y)
        px == fx.ret
        py == fy.ret
        u  == fy.uf
    IN  IF px = py THEN [uf |-> u, ret |-> FALSE]
        ELSE IF u.rank[px] < u.rank[py]
             THEN [uf |-> u, ret |-> TRUE]
        ELSE IF u.rank[px] > u.rank[py]
             THEN [uf |-> [u EXCEPT !.parent[py] = px], ret |-> TRUE]
        ELSE [uf |-> [u EXCEPT !.parent[py] = px, !.rank[px] = @ + 1],
              ret |-> TRUE]

\* union_sets that leaves the rank alone when the two ranks are equal
union_sets_no_increment(uf, x, y) ==
    LET fx == find(uf, x)
        fy == find(fx.uf, y)
        px == fx.ret
        py == fy.ret
        u  == fy.uf
    IN  IF px = py THEN [uf |-> u, ret |-> FALSE]
        ELSE IF u.rank[px] < u.rank[py]
             THEN [uf |-> [u EXCEPT !.parent[px] = py], ret |-> TRUE]
        ELSE IF u.rank[px] > u.rank[py]
             THEN [uf |-> [u EXCEPT !.parent[py] = px], ret |-> TRUE]
        ELSE [uf |-> [u EXCEPT !.parent[py] = px], ret |-> TRUE]

\* bool union_sets(int x, int y)
union_sets(uf, x, y) ==
    LET fx == find(uf, x)
        fy == find(fx.uf, y)
        px == fx.ret
        py == fy.ret
        u  == fy.uf
    IN  IF px = py THEN [uf |-> u, ret |-> FALSE]
        ELSE IF u.rank[px] < u.rank[py]
             THEN [uf |-> [u EXCEPT !.parent[px] = py], ret |-> TRUE]
        ELSE IF u.rank[px] > u.rank[py]
             THEN [uf |-> [u EXCEPT !.parent[py] = px], ret |-> TRUE]
        ELSE [uf |-> [u EXCEPT !.parent[py] = px, !.rank[px] = @ + 1],
              ret |-> TRUE]

\* bool connected(int x, int y)
connected(uf, x, y) ==
    LET fx == find(uf, x)
        fy == find(fx.uf, y)
    IN  [uf |-> fy.uf, ret |-> fx.ret = fy.ret]

\* the range test every entry point applies to a 0-based endpoint pair
InRange(u, v, n) == u >= 0 /\ u < n /\ v >= 0 /\ v < n

\* the edge loop shared by find_components_cpp, are_connected_cpp and
\* get_edge_components_cpp: union every edge with both endpoints in range
RECURSIVE BuildUF(_, _, _, _)
BuildUF(uf, es, i, n) ==
    IF i > Len(es) THEN uf
    ELSE LET u == es[i][1] - 1
             v == es[i][2] - 1
         IN  IF InRange(u, v, n)
             THEN BuildUF(union_sets(uf, u, v).uf, es, i + 1, n)
             ELSE BuildUF(uf, es, i + 1, n)

\* the labelling loop with the compress flag ignored when an id is chosen
RECURSIVE LabelNodes_raw_id(_, _, _, _)
LabelNodes_raw_id(st, i, n, compress) ==
    IF i >= n THEN st
    ELSE LET f    == find(st.uf, i)
             root == f.ret
             seen == root \in DOMAIN st.component_map
             id   == IF seen THEN st.component_map[root]
                     ELSE root
             cm   == IF seen THEN st.component_map
                     ELSE [r \in DOMAIN st.component_map \cup {root} |->
                              IF r = root THEN id ELSE st.component_map[r]]
         IN  LabelNodes_raw_id([uf |-> f.uf,
                         component_map |-> cm,
                         components |-> Append(st.components, id),
                         next_component_id |->
                             IF ~seen /\ compress THEN st.next_component_id + 1
                             ELSE st.next_component_id],
                        i + 1, n, compress)

\* the labelling loop of find_components_cpp:
\* st = [uf, component_map, components, next_component_id]
RECURSIVE LabelNodes(_, _, _, _)
LabelNodes(st, i, n, compress) ==
    IF i >= n THEN st
    ELSE LET f    == find(st.uf, i)
             root == f.ret
             seen == root \in DOMAIN st.component_map
             id   == IF seen THEN st.component_map[root]
                     ELSE IF compress THEN st.next_component_id ELSE root
             cm   == IF seen THEN st.component_map
                     ELSE [r \in DOMAIN st.component_map \cup {root} |->
                              IF r = root THEN id ELSE st.component_map[r]]
         IN  LabelNodes([uf |-> f.uf,
                         component_map |-> cm,
                         components |-> Append(st.components, id),
                         next_component_id |->
                             IF ~seen /\ compress THEN st.next_component_id + 1
                             ELSE st.next_component_id],
                        i + 1, n, compress)

\* the same loop as written in get_edge_components_cpp:
\* st = [uf, component_map, components (node_components), next_component_id]
RECURSIVE LabelEdgeNodes(_, _, _, _)
LabelEdgeNodes(st, i, n, compress) ==
    IF i >= n THEN st
    ELSE LET f    == find(st.uf, i)
             root == f.ret
             seen == root \in DOMAIN st.component_map
             id   == IF seen THEN st.component_map[root]
                     ELSE IF compress THEN st.next_component_id ELSE root
             cm   == IF seen THEN st.component_map
                     ELSE [r \in DOMAIN st.component_map \cup {root} |->
                              IF r = root THEN id ELSE st.component_map[r]]
         IN  LabelEdgeNodes([uf |-> f.uf,
                         component_map |-> cm,
                         components |-> Append(st.components, id),
                         next_component_id |->
                             IF ~seen /\ compress THEN st.next_component_id + 1
                             ELSE st.next_component_id],
                        i + 1, n, compress)

EmptyMap == [r \in {} |-> 0]

\* no working structure kept
NoLocals == [none |-> TRUE]

LabelStart(es, n) ==
    [uf |-> BuildUF(UnionFind(n), es, 1, n),
     component_map |-> EmptyMap,
     components |-> <<>>,
     next_component_id |-> 0]

Label(es, n, compress) == LabelNodes(LabelStart(es, n), 0, n, compress)

EdgeLabel(es, n, compress) == LabelEdgeNodes(LabelStart(es, n), 0, n, compress)

\* the tail of find_components_cpp with component_sizes indexed by the
\* shifted id
ComponentList_sizes_shifted(st, compress) ==
    LET comps == st.components
        sizes == [k \in 1..st.next_component_id |->
                    IF compress
                    THEN Cardinality({i \in 1..Len(comps) : comps[i] = k})
                    ELSE 0]
    IN  [components |-> [i \in 1..Len(comps) |->
                            IF compress THEN comps[i] + 1 ELSE comps[i]],
         component_sizes |-> sizes,
         n_components |-> st.next_component_id]

\* the tail of find_components_cpp: sizes, the shift to 1-based ids and the
\* returned list.  component_sizes is a sequence: its k-th element is the
\* C++ component_sizes[k-1]; likewise components[i] is the label of node i-1.
ComponentList(st, compress) ==
    LET comps == st.components
        sizes == [k \in 1..st.next_component_id |->
                    IF compress
                    THEN Cardinality({i \in 1..Len(comps) : comps[i] = k - 1})
                    ELSE 0]
    IN  [components |-> [i \in 1..Len(comps) |->
                            IF compress THEN comps[i] + 1 ELSE comps[i]],
         component_sizes |-> sizes,
         n_components |-> st.next_component_id]

\* Rcpp::List find_components_cpp(edges, n_nodes, compress)
find_components_cpp(es, n, compress) ==
    ComponentList(Label(es, n, compress), compress)

\* the tail of get_edge_components_cpp marking an invalid edge -1 whatever
\* compress is
EdgeList_bad_minus1(st, es, n, compress) ==
    LET node_components == [i \in 1..Len(st.components) |->
                               IF compress THEN st.components[i] + 1
                               ELSE st.components[i]]
        inr(i) == InRange(es[i][1] - 1, es[i][2] - 1, n)
        bad == -1
    IN  [from_components |-> [i \in 1..Len(es) |->
                                 IF inr(i) THEN node_components[es[i][1]] ELSE bad],
         to_components |-> [i \in 1..Len(es) |->
                               IF inr(i) THEN node_components[es[i][2]] ELSE bad],
         n_components |-> st.next_component_id]

\* the tail of get_edge_components_cpp: the shift to 1-based ids, the edge
\* loop and the returned list
EdgeList(st, es, n, compress) ==
    LET node_components == [i \in 1..Len(st.components) |->
                               IF compress THEN st.components[i] + 1
                               ELSE st.components[i]]
        inr(i) == InRange(es[i][1] - 1, es[i][2] - 1, n)
        bad == IF compress THEN 0 ELSE -1
    IN  [from_components |-> [i \in 1..Len(es) |->
                                 IF inr(i) THEN node_components[es[i][1]] ELSE bad],
         to_components |-> [i \in 1..Len(es) |->
                               IF inr(i) THEN node_components[es[i][2]] ELSE bad],
         n_components |-> st.next_component_id]

\* Rcpp::List get_edge_components_cpp(edges, n_nodes, compress)
get_edge_components_cpp(es, n, compress) ==
    EdgeList(EdgeLabel(es, n, compress), es, n, compress)

\* Rcpp::LogicalVector are_connected_cpp(edges, query_pairs, n_nodes): the
\* query loop; connected() compresses paths, so the structure is threaded
\* through the queries
RECURSIVE AnswerQueries(_, _, _, _, _)
AnswerQueries(uf, qs, i, n, result) ==
    IF i > Len(qs) THEN result
    ELSE LET u == qs[i][1] - 1
             v == qs[i][2] - 1
         IN  IF InRange(u, v, n)
             THEN LET c == connected(uf, u, v)
                  IN  AnswerQueries(c.uf, qs, i + 1, n, Append(result, c.ret))
             ELSE AnswerQueries(uf, qs, i + 1, n, Append(result, FALSE))

are_connected_cpp(es, qs, n) ==
    AnswerQueries(BuildUF(UnionFind(n), es, 1, n), qs, 1, n, <<>>)

\* the adjacency loop of shortest_paths_cpp: valid, non-self-loop edges,
\* both directions, in edge order
RECURSIVE BuildAdj(_, _, _, _)
BuildAdj(adj, es, i, n) ==
    IF i > Len(es) THEN adj
    ELSE LET u == es[i][1] - 1
             v == es[i][2] - 1
         IN  IF InRange(u, v, n) /\ u # v
             THEN BuildAdj([adj EXCEPT ![u] = Append(@, v), ![v] = Append(@, u)],
                           es, i + 1, n)
             ELSE BuildAdj(adj, es, i + 1, n)

\* for (int neighbor : adj[current]): b = [distance, bfs_queue, found, result]
RECURSIVE VisitNeighbors(_, _, _, _, _)
VisitNeighbors(b, nbrs, k, current, target) ==
    IF k > Len(nbrs) THEN b
    ELSE LET neighbor == nbrs[k]
         IN  IF b.distance[neighbor] = -1
             THEN LET d == b.distance[current] + 1
                      dist == [b.distance EXCEPT ![neighbor] = d]
                  IN  IF neighbor = target
                      THEN [b EXCEPT !.distance = dist, !.result = d, !.found = TRUE]
                      ELSE VisitNeighbors([b EXCEPT !.distance = dist,
                                                    !.bfs_queue = Append(@, neighbor)],
                                          nbrs, k + 1, current, target)
             ELSE VisitNeighbors(b, nbrs, k + 1, current, target)

\* the search loop with the cutoff test written > instead of >=
RECURSIVE BfsLoop_gt(_, _, _, _)
BfsLoop_gt(b, adj, target, max_distance) ==
    IF b.bfs_queue = <<>> \/ b.found THEN b
    ELSE LET current == Head(b.bfs_queue)
             popped  == [b EXCEPT !.bfs_queue = Tail(@)]
         IN  IF max_distance > 0 /\ b.distance[current] > max_distance
             THEN popped
             ELSE BfsLoop_gt(VisitNeighbors(popped, adj[current], 1, current, target),
                             adj, target, max_distance)

\* while (!bfs_queue.empty() && !found)
RECURSIVE BfsLoop(_, _, _, _)
BfsLoop(b, adj, target, max_distance) ==
    IF b.bfs_queue = <<>> \/ b.found THEN b
    ELSE LET current == Head(b.bfs_queue)
             popped  == [b EXCEPT !.bfs_queue = Tail(@)]
         IN  IF max_distance > 0 /\ b.distance[current] >= max_distance
             THEN popped
             ELSE BfsLoop(VisitNeighbors(popped, adj[current], 1, current, target),
                          adj, target, max_distance)

\* one iteration of the query loop of shortest_paths_cpp
PathQuery(adj, n, source, target, max_distance) ==
    IF source < 0 \/ source >= n \/ target < 0 \/ target >= n THEN -1
    ELSE IF source = target THEN 0
    ELSE LET b == BfsLoop([distance |-> [i \in 0..(n - 1) |->
                                            IF i = source THEN 0 ELSE -1],
                           bfs_queue |-> <<source>>,
                           found |-> FALSE,
                           result |-> -1],
                          adj, target, max_distance)
         IN  IF b.found THEN b.result ELSE -1

\* Rcpp::IntegerVector shortest_paths_cpp(edges, query_pairs, n_nodes, max_distance)
shortest_paths_cpp(es, qs, n, max_distance) ==
    LET adj == BuildAdj([i \in 0..(n - 1) |-> <<>>], es, 1, n)
    IN  [q \in 1..Len(qs) |->
            PathQuery(adj, n, qs[q][1] - 1, qs[q][2] - 1, max_distance)]

\* ------------------------------------------------- multi_column_group
\* A std::string is the sequence of its characters.  A cell is NA or holds a
\* value; a column is NULL or has an R type and cells.
NA == [na |-> TRUE]
Cell(v) == [na |-> FALSE, v |-> v]
NullColumn == [type |-> "NILSXP", cells |-> <<>>]

\* ::tolower on the characters in use
tolower(c) == IF c = "A" THEN "a" ELSE IF c = "B" THEN "b" ELSE c

\* std::transform(val.begin(), val.end(), val.begin(), ::tolower)
LowerCase(val) == [i \in 1..Len(val) |-> tolower(val[i])]

DigitChars == <<"0", "1", "2", "3", "4", "5", "6", "7", "8", "9">>

RECURSIVE NatToString(_)
NatToString(k) ==
    IF k < 10 THEN <<DigitChars[k + 1]>>
    ELSE Append(NatToString(k \div 10), DigitChars[(k % 10) + 1])

\* std::to_string(int)
IntToString(k) == IF k < 0 THEN <<"-">> \o NatToString(-k) ELSE NatToString(k)

\* std::to_string(double) is "%f": six decimals.  A double is held as its
\* number of millionths.
DoubleToString(x) ==
    LET m == IF x < 0 THEN -x ELSE x
        frac == m % 1000000
        fdigits == [i \in 1..6 |->
                       DigitChars[((frac \div (10 ^ (6 - i))) % 10) + 1]]
    IN  (IF x < 0 THEN <<"-">> ELSE <<>>) \o NatToString(m \div 1000000)
            \o <<".">> \o fdigits

\* a row-count loop that stops at the first column that is not NULL, whatever
\* its length
RECURSIVE RowCount_first_non_null(_, _)
RowCount_first_non_null(d, i) ==
    IF i > Len(d) THEN 0
    ELSE IF d[i].type # "NILSXP" THEN Len(d[i].cells)
    ELSE RowCount_first_non_null(d, i + 1)

\* the row-count loop: the length of the first column that is not NULL and
\* has a nonzero length
RECURSIVE RowCount(_, _)
RowCount(d, i) ==
    IF i > Len(d) THEN 0
    ELSE IF d[i].type # "NILSXP" /\ Len(d[i].cells) # 0 THEN Len(d[i].cells)
    ELSE RowCount(d, i + 1)

\* std::unordered_set<std::string> incomp_set
IncompSet(incomparables, case_sensitive) ==
    {IF case_sensitive THEN incomparables[i] ELSE LowerCase(incomparables[i]) :
        i \in 1..Len(incomparables)}

\* value_to_rows[val].push_back(row)
PushRow(m, val, row) ==
    [k \in DOMAIN m \cup {val} |->
        IF k = val
        THEN (IF val \in DOMAIN m THEN Append(m[val], row) ELSE <<row>>)
        ELSE m[k]]

\* the row loop of a STRSXP column
RECURSIVE StringRows(_, _, _, _, _, _)
StringRows(m, cells, row, max_rows, incomp_set, case_sensitive) ==
    IF row >= max_rows THEN m
    ELSE IF cells[row + 1].na
         THEN StringRows(m, cells, row + 1, max_rows, incomp_set, case_sensitive)
    ELSE LET val == IF case_sensitive THEN cells[row + 1].v
                    ELSE LowerCase(cells[row + 1].v)
         IN  IF val \in incomp_set \/ val = <<>>
             THEN StringRows(m, cells, row + 1, max_rows, incomp_set, case_sensitive)
             ELSE StringRows(PushRow(m, val, row), cells, row + 1, max_rows,
                             incomp_set, case_sensitive)

\* the row loop of a REALSXP column
RECURSIVE RealRows(_, _, _, _)
RealRows(m, cells, row, max_rows) ==
    IF row >= max_rows THEN m
    ELSE IF cells[row + 1].na THEN RealRows(m, cells, row + 1, max_rows)
    ELSE RealRows(PushRow(m, DoubleToString(cells[row + 1].v), row),
                  cells, row + 1, max_rows)

\* the row loop of an INTSXP column
RECURSIVE IntRows(_, _, _, _)
IntRows(m, cells, row, max_rows) ==
    IF row >= max_rows THEN m
    ELSE IF cells[row + 1].na THEN IntRows(m, cells, row + 1, max_rows)
    ELSE IntRows(PushRow(m, IntToString(cells[row + 1].v), row),
                 cells, row + 1, max_rows)

\* the column loop: builds value_to_rows
RECURSIVE ProcessColumns(_, _, _, _, _, _)
ProcessColumns(m, d, col, n_rows, incomp_set, case_sensitive) ==
    IF col > Len(d) THEN m
    ELSE LET column == d[col]
             col_size == Len(column.cells)
             max_rows == IF n_rows < col_size THEN n_rows ELSE col_size
             m2 == IF column.type = "STRSXP"
                   THEN StringRows(m, column.cells, 0, max_rows, incomp_set,
                                   case_sensitive)
                   ELSE IF column.type = "REALSXP"
                   THEN RealRows(m, column.cells, 0, max_rows)
                   ELSE IF column.type = "INTSXP"
                   THEN IntRows(m, column.cells, 0, max_rows)
                   ELSE m
         IN  ProcessColumns(m2, d, col + 1, n_rows, incomp_set, case_sensitive)

EmptyValueMap == [k \in {} |-> <<>>]

ValueToRows(d, incomparables, case_sensitive) ==
    ProcessColumns(EmptyValueMap, d, 1, RowCount(d, 1),
                   IncompSet(incomparables, case_sensitive), case_sensitive)

\* for (size_t i = 1; i < rows.size(); i++) uf.union_sets(rows[0], rows[i])
RECURSIVE StarUnion(_, _, _)
StarUnion(uf, rows, i) ==
    IF i > Len(rows) THEN uf
    ELSE StarUnion(union_sets(uf, rows[1], rows[i]).uf, rows, i + 1)

\* the union phase; order is the iteration order of the unordered_map
RECURSIVE UnionPhase(_, _, _, _)
UnionPhase(uf, m, order, i) ==
    IF i > Len(order) THEN uf
    ELSE IF Len(m[order[i]]) < 2 THEN UnionPhase(uf, m, order, i + 1)
    ELSE UnionPhase(StarUnion(uf, m[order[i]], 2), m, order, i + 1)

\* first pass: root_counts
RECURSIVE CountRoots(_, _, _)
CountRoots(st, i, n_rows) ==
    IF i >= n_rows THEN st
    ELSE LET f == find(st.uf, i)
             c == IF f.ret \in DOMAIN st.root_counts
                  THEN st.root_counts[f.ret] + 1 ELSE 1
         IN  CountRoots([uf |-> f.uf,
                         root_counts |->
                             [r \in DOMAIN st.root_counts \cup {f.ret} |->
                                 IF r = f.ret THEN c ELSE st.root_counts[r]]],
                        i + 1, n_rows)

\* second pass with the size test written > instead of >=
RECURSIVE AssignGroups_gt(_, _, _, _, _)
AssignGroups_gt(st, i, n_rows, root_counts, min_group_size) ==
    IF i >= n_rows THEN st
    ELSE LET f == find(st.uf, i)
             root == f.ret
         IN  IF root_counts[root] > min_group_size
             THEN LET seen == root \in DOMAIN st.root_to_group
                      g == IF seen THEN st.root_to_group[root] ELSE st.next_group_id
                  IN  AssignGroups_gt(
                          [uf |-> f.uf,
                           root_to_group |->
                               [r \in DOMAIN st.root_to_group \cup {root} |->
                                   IF r = root THEN g ELSE st.root_to_group[r]],
                           next_group_id |-> IF seen THEN st.next_group_id
                                             ELSE st.next_group_id + 1,
                           temp_group_sizes |->
                               IF seen THEN st.temp_group_sizes
                               ELSE Append(st.temp_group_sizes, root_counts[root]),
                           group_ids |-> Append(st.group_ids, g)],
                          i + 1, n_rows, root_counts, min_group_size)
             ELSE AssignGroups_gt([st EXCEPT !.uf = f.uf,
                                             !.group_ids = Append(@, 0)],
                                  i + 1, n_rows, root_counts, min_group_size)

\* second pass: group ids for the roots that meet min_group_size
RECURSIVE AssignGroups(_, _, _, _, _)
AssignGroups(st, i, n_rows, root_counts, min_group_size) ==
    IF i >= n_rows THEN st
    ELSE LET f == find(st.uf, i)
             root == f.ret
         IN  IF root_counts[root] >= min_group_size
             THEN LET seen == root \in DOMAIN st.root_to_group
                      g == IF seen THEN st.root_to_group[root] ELSE st.next_group_id
                  IN  AssignGroups(
                          [uf |-> f.uf,
                           root_to_group |->
                               [r \in DOMAIN st.root_to_group \cup {root} |->
                                   IF r = root THEN g ELSE st.root_to_group[r]],
                           next_group_id |-> IF seen THEN st.next_group_id
                                             ELSE st.next_group_id + 1,
                           temp_group_sizes |->
                               IF seen THEN st.temp_group_sizes
                               ELSE Append(st.temp_group_sizes, root_counts[root]),
                           group_ids |-> Append(st.group_ids, g)],
                          i + 1, n_rows, root_counts, min_group_size)
             ELSE AssignGroups([st EXCEPT !.uf = f.uf,
                                          !.group_ids = Append(@, 0)],
                               i + 1, n_rows, root_counts, min_group_size)

\* the value_map output loop, in the map's iteration order; an entry is
\* its name and its 1-based row vector
RECURSIVE ValueMapOut(_, _, _)
ValueMapOut(m, order, i) ==
    IF i > Len(order) THEN <<>>
    ELSE LET rows == m[order[i]]
             rest == ValueMapOut(m, order, i + 1)
         IN  IF Len(rows) >= 2
             THEN <<[name |-> order[i],
                     rows |-> [j \in 1..Len(rows) |-> rows[j] + 1]]>> \o rest
             ELSE rest

EmptyGroupResult ==
    [group_ids |-> <<>>, n_groups |-> 0, group_sizes |-> <<>>, value_map |-> <<>>]

\* Rcpp::List multi_column_group_cpp(data, incomparables, case_sensitive,
\* min_group_size): the returned list (result) and the working structures as
\* they are at return (locals); order is the iteration order of value_to_rows
multi_column_group_cpp(d, incomparables, case_sensitive, min_group_size, order) ==
    IF Len(d) = 0 THEN [result |-> EmptyGroupResult, locals |-> NoLocals]
    ELSE IF RowCount(d, 1) = 0 THEN [result |-> EmptyGroupResult, locals |-> NoLocals]
    ELSE LET n_rows == RowCount(d, 1)
             m == ValueToRows(d, incomparables, case_sensitive)
             counted == CountRoots([uf |-> UnionPhase(UnionFind(n_rows), m, order, 1),
                                    root_counts |-> EmptyMap], 0, n_rows)
             st == AssignGroups([uf |-> counted.uf,
                                 root_to_group |-> EmptyMap,
                                 next_group_id |-> 1,
                                 temp_group_sizes |-> <<>>,
                                 group_ids |-> <<>>],
                                0, n_rows, counted.root_counts, min_group_size)
         IN  [result |-> [group_ids |-> st.group_ids,
                          n_groups |-> st.next_group_id - 1,
                          group_sizes |-> st.temp_group_sizes,
                          value_map |-> ValueMapOut(m, order, 1)],
              locals |-> [n_rows |-> n_rows, value_to_rows |-> m, uf |-> st.uf]]

\* ------------------------------------------------------------ the inputs
\* endpoint values around the valid range 1..n
Endpoints(n) == IF n < 0 THEN 0..1 ELSE 0..(n + 1)
Pairs(n) == Endpoints(n) \X Endpoints(n)

RECURSIVE SeqsUpTo(_, _)
SeqsUpTo(S, k) ==
    IF k = 0 THEN {<<>>}
    ELSE LET shorter == SeqsUpTo(S, k - 1)
         IN  shorter \cup {Append(s, x) : s \in {t \in shorter : Len(t) = k - 1}, x \in S}

\* ------------------------------------------------------------- actions
Init ==
    /\ n_nodes \in 0..MaxNodes
    /\ edges \in SeqsUpTo(Pairs(n_nodes), MaxEdges)
    /\ data = <<>>
    /\ op = "none"
    /\ args = <<>>
    /\ ret = <<>>
    /\ locals = NoLocals

FindComponents ==
    /\ op = "none"
    /\ \E compress \in BOOLEAN :
        /\ op' = "find_components"
        /\ args' = [compress |-> compress]
        /\ IF NegativeSize(n_nodes)
           THEN ret' \in VectorTooLong /\ locals' = NoLocals
           ELSE LET st == Label(edges, n_nodes, compress)
                IN  /\ ret' = ComponentList(st, compress)
                    /\ locals' = [uf |-> st.uf]
        /\ UNCHANGED <<edges, n_nodes, data>>

GetEdgeComponents ==
    /\ op = "none"
    /\ \E compress \in BOOLEAN :
        /\ op' = "get_edge_components"
        /\ args' = [compress |-> compress]
        /\ IF NegativeSize(n_nodes)
           THEN ret' \in VectorTooLong /\ locals' = NoLocals
           ELSE LET st == EdgeLabel(edges, n_nodes, compress)
                IN  /\ ret' = EdgeList(st, edges, n_nodes, compress)
                    /\ locals' = [uf |-> st.uf]
        /\ UNCHANGED <<edges, n_nodes, data>>

AreConnected ==
    /\ op = "none"
    /\ \E query_pairs \in SeqsUpTo(Pairs(n_nodes), MaxQueries) :
        /\ op' = "are_connected"
        /\ args' = [query_pairs |-> query_pairs]
        /\ IF NegativeSize(n_nodes)
           THEN ret' \in VectorTooLong
           ELSE ret' = are_connected_cpp(edges, query_pairs, n_nodes)
        /\ locals' = NoLocals
        /\ UNCHANGED <<edges, n_nodes, data>>

ShortestPaths ==
    /\ op = "none"
    /\ \E query_pairs \in SeqsUpTo(Pairs(n_nodes), MaxQueries),
          max_distance \in -1..MaxDist :
        /\ op' = "shortest_paths"
        /\ args' = [query_pairs |-> query_pairs, max_distance |-> max_distance]
        /\ IF NegativeSize(n_nodes)
           THEN ret' \in VectorTooLong
           ELSE ret' = shortest_paths_cpp(edges, query_pairs, n_nodes, max_distance)
        /\ locals' = NoLocals
        /\ UNCHANGED <<edges, n_nodes, data>>

\* the component labeller: find_components and get_edge_components
Next == FindComponents \/ GetEdgeComponents

Spec == Init /\ [][Next]_vars

\* the query engine, with find_components on the same edges
InitQuery ==
    /\ n_nodes \in 0..QNodes
    /\ edges \in SeqsUpTo(Pairs(n_nodes), QEdges)
    /\ data = <<>>
    /\ op = "none"
    /\ args = <<>>
    /\ ret = <<>>
    /\ locals = NoLocals

NextQuery == FindComponents \/ AreConnected \/ ShortestPaths

SpecQuery == InitQuery /\ [][NextQuery]_vars

\* ----------------------------------------------- the record-linkage grouper
StringValues == {<<>>, <<"a">>, <<"A">>}
IntValues == {1}
RealValues == {1000000}
IncomparableValues == {<<"A">>, <<"1">>, <<"1", ".", "0", "0", "0", "0", "0", "0">>}

Cells(V) == {NA} \cup {Cell(v) : v \in V}

Columns ==
    {NullColumn}
    \cup {[type |-> "STRSXP", cells |-> c] : c \in SeqsUpTo(Cells(StringValues), MaxRows)}
    \cup {[type |-> "INTSXP", cells |-> c] : c \in SeqsUpTo(Cells(IntValues), MaxRows)}
    \cup {[type |-> "REALSXP", cells |-> c] : c \in SeqsUpTo(Cells(RealValues), MaxRows)}
    \cup {[type |-> "LGLSXP", cells |-> c] : c \in SeqsUpTo({NA}, MaxRows)}

\* the orders in which a set can be iterated
RECURSIVE Orders(_)
Orders(S) ==
    IF S = {} THEN {<<>>}
    ELSE UNION {{<<x>> \o o : o \in Orders(S \ {x})} : x \in S}

InitGroup ==
    /\ edges = <<>>
    /\ n_nodes = 0
    /\ data \in SeqsUpTo(Columns, MaxCols)
    /\ op = "none"
    /\ args = <<>>
    /\ ret = <<>>
    /\ locals = NoLocals

MultiColumnGroup ==
    /\ op = "none"
    /\ \E incomparables \in SeqsUpTo(IncomparableValues, MaxIncomp),
          case_sensitive \in BOOLEAN,
          min_group_size \in 1..MaxRows :
        \E order \in Orders(DOMAIN ValueToRows(data, incomparables, case_sensitive)) :
            LET call == multi_column_group_cpp(data, incomparables, case_sensitive,
                                               min_group_size, order)
            IN  /\ op' = "multi_column_group"
                /\ args' = [incomparables |-> incomparables,
                            case_sensitive |-> case_sensitive,
                            min_group_size |-> min_group_size]
                /\ ret' = call.result
                /\ locals' = call.locals
                /\ UNCHANGED <<edges, n_nodes, data>>

NextGroup == MultiColumnGroup

SpecGroup == InitGroup /\ [][NextGroup]_vars

\* ------------------------------------------------- multi-pattern matching
\* A string is a sequence of bytes; a byte is written as a one-character
\* string, and the two Latin-1 letters 0xC0 and 0xE0 (capital and small a
\* with grave) as "xC0" and "xE0".
MatchChars == {"a", "A", "xC0", "xE0"}

\* the value of a byte as unsigned char
CharCode(c) ==
    IF c = "A" THEN 65
    ELSE IF c = "B" THEN 66
    ELSE IF c = "a" THEN 97
    ELSE IF c = "b" THEN 98
    ELSE IF c = "xC0" THEN 192
    ELSE 224

CodeChar(k) == CHOOSE c \in MatchChars \cup {"B", "b"} : CharCode(c) = k

\* LC_CTYPE of the process: the "C" locale (or a UTF-8 one, where ::tolower
\* leaves the bytes above 127 alone) or a single-byte Latin-1 locale
Locales == {"C", "latin1"}

\* ::tolower under the locale of the process; tolower above is the "C" case
tolower_l(locale, c) ==
    IF locale = "latin1" /\ CharCode(c) = 192 THEN CodeChar(224) ELSE tolower(c)

\* std::transform(s.begin(), s.end(), s.begin(), ::tolower)
TransformLower(locale, s) == [i \in 1..Len(s) |-> tolower_l(locale, s[i])]

\* (c >= 'A' && c <= 'Z') ? c + 32 : c
FastLowerChar(c) ==
    IF CharCode(c) >= 65 /\ CharCode(c) <= 90 THEN CodeChar(CharCode(c) + 32) ELSE c

\* the loops "if (c >= 'A' && c <= 'Z') c += 32" over a pattern or a string
FastLower(s) == [i \in 1..Len(s) |-> FastLowerChar(s[i])]

\* str.find(pattern) != std::string::npos, also strstr(str, pattern) != nullptr
Contains(str, pattern) ==
    \E k \in 0..(Len(str) - Len(pattern)) :
        \A j \in 1..Len(pattern) : str[k + j] = pattern[j]

\* pattern_vec of multi_grepl_cpp and multi_grepl_any_cpp
PatternVec(patterns, ignore_case, locale) ==
    [p \in 1..Len(patterns) |->
        IF ignore_case THEN TransformLower(locale, patterns[p]) ELSE patterns[p]]

\* for (p = 0; p < n_patterns && !found_match; p++): found_match at loop exit
RECURSIVE AnyLoop(_, _, _)
AnyLoop(str, pattern_vec, p) ==
    IF p > Len(pattern_vec) THEN FALSE
    ELSE IF Contains(str, pattern_vec[p]) THEN TRUE
    ELSE AnyLoop(str, pattern_vec, p + 1)

\* Rcpp::LogicalMatrix multi_grepl_cpp(strings, patterns, match_any,
\* ignore_case): the matrix as the sequence of its rows
multi_grepl_cpp(strings, patterns, match_any, ignore_case, locale) ==
    LET pattern_vec == PatternVec(patterns, ignore_case, locale)
        str(i) == IF ignore_case THEN TransformLower(locale, strings[i])
                  ELSE strings[i]
    IN  IF match_any
        THEN [i \in 1..Len(strings) |-> <<AnyLoop(str(i), pattern_vec, 1)>>]
        ELSE [i \in 1..Len(strings) |->
                [p \in 1..Len(patterns) |-> Contains(str(i), pattern_vec[p])]]

\* Rcpp::LogicalVector multi_grepl_any_cpp(strings, patterns, ignore_case)
multi_grepl_any_cpp(strings, patterns, ignore_case, locale) ==
    LET pattern_vec == PatternVec(patterns, ignore_case, locale)
        str(i) == IF ignore_case THEN TransformLower(locale, strings[i])
                  ELSE strings[i]
    IN  [i \in 1..Len(strings) |-> AnyLoop(str(i), pattern_vec, 1)]

\* pattern_data before the sort: (pattern, length) pairs in input order
PatternData(patterns, ignore_case) ==
    [p \in 1..Len(patterns) |->
        LET pattern == IF ignore_case THEN FastLower(patterns[p]) ELSE patterns[p]
        IN  [first |-> pattern, second |-> Len(pattern)]]

\* the outcomes of std::sort by length: std::sort is not stable, so every
\* arrangement of pattern_data with ascending lengths
SortedByLength(pattern_data) ==
    {[p \in 1..Len(pattern_data) |-> pattern_data[o[p]]] :
        o \in {q \in Orders(1..Len(pattern_data)) :
                 \A a, b \in 1..Len(pattern_data) :
                     a < b => pattern_data[q[a]].second <= pattern_data[q[b]].second}}

\* the pattern loop over the sorted pattern_data: found_match at loop exit
RECURSIVE FastLoop(_, _, _, _)
FastLoop(str, str_len, pattern_data, p) ==
    IF p > Len(pattern_data) THEN FALSE
    ELSE IF pattern_data[p].second > str_len THEN FALSE
    ELSE IF Contains(str, pattern_data[p].first) THEN TRUE
    ELSE FastLoop(str, str_len, pattern_data, p + 1)

\* Rcpp::LogicalVector multi_grepl_any_fast_cpp(strings, patterns,
\* ignore_case); sorted is pattern_data as std::sort left it
multi_grepl_any_fast_cpp(strings, patterns, ignore_case, sorted) ==
    IF Len(patterns) = 0 THEN [i \in 1..Len(strings) |-> FALSE]
    ELSE [i \in 1..Len(strings) |->
            LET str_len == Len(strings[i])
            IN  IF ignore_case
                THEN FastLoop(FastLower(strings[i]), str_len, sorted, 1)
                ELSE FastLoop(strings[i], str_len, sorted, 1)]

RECURSIVE StringsUpTo(_)
StringsUpTo(k) ==
    IF k = 0 THEN {<<>>}
    ELSE LET shorter == StringsUpTo(k - 1)
         IN  shorter \cup {Append(s, c) : s \in shorter, c \in MatchChars}

InitMatch ==
    /\ edges = <<>>
    /\ n_nodes = 0
    /\ data \in [strings : SeqsUpTo(StringsUpTo(MaxStrLen), MaxStrings),
                 patterns : SeqsUpTo(StringsUpTo(MaxPatLen), MaxPatterns),
                 locale : Locales]
    /\ op = "none"
    /\ args = <<>>
    /\ ret = <<>>
    /\ locals = NoLocals

MultiGrepl ==
    /\ op = "none"
    /\ \E match_any \in BOOLEAN, ignore_case \in BOOLEAN :
        /\ op' = "multi_grepl"
        /\ args' = [match_any |-> match_any, ignore_case |-> ignore_case]
        /\ ret' = multi_grepl_cpp(data.strings, data.patterns, match_any,
                                  ignore_case, data.locale)
        /\ locals' = NoLocals
        /\ UNCHANGED <<edges, n_nodes, data>>

MultiGreplAny ==
    /\ op = "none"
    /\ \E ignore_case \in BOOLEAN :
        /\ op' = "multi_grepl_any"
        /\ args' = [ignore_case |-> ignore_case]
        /\ ret' = multi_grepl_any_cpp(data.strings, data.patterns, ignore_case,
                                      data.locale)
        /\ locals' = NoLocals
        /\ UNCHANGED <<edges, n_nodes, data>>

MultiGreplAnyFast ==
    /\ op = "none"
    /\ \E ignore_case \in BOOLEAN :
        \E sorted \in SortedByLength(PatternData(data.patterns, ignore_case)) :
            /\ op' = "multi_grepl_any_fast"
            /\ args' = [ignore_case |-> ignore_case]
            /\ ret' = multi_grepl_any_fast_cpp(data.strings, data.patterns,
                                               ignore_case, sorted)
            /\ locals' = [pattern_data |-> sorted]
            /\ UNCHANGED <<edges, n_nodes, data>>

NextMatch == MultiGrepl \/ MultiGreplAny \/ MultiGreplAnyFast

SpecMatch == InitMatch /\ [][NextMatch]_vars

\* ------------------------------------------------------------ graph_stats
\* a double as the exact quotient num / den; 0 / 0 is NaN
Quotient(num, den) == [num |-> num, den |-> den]

\* the edge loop of graph_stats_cpp: degree after rows i.. of es
RECURSIVE DegreeLoop(_, _, _, _)
DegreeLoop(degree, es, i, n) ==
    IF i > Len(es) THEN degree
    ELSE LET u == es[i][1] - 1
             v == es[i][2] - 1
         IN  IF InRange(u, v, n) /\ u # v
             THEN DegreeLoop([[degree EXCEPT ![u] = @ + 1] EXCEPT ![v] = @ + 1],
                             es, i + 1, n)
             ELSE DegreeLoop(degree, es, i + 1, n)

\* *std::min_element(degree.begin(), degree.end()) on a non-empty vector
RECURSIVE min_element(_, _, _, _)
min_element(degree, i, n, best) ==
    IF i >= n THEN best
    ELSE min_element(degree, i + 1, n, IF degree[i] < best THEN degree[i] ELSE best)

\* *std::max_element(degree.begin(), degree.end()) on a non-empty vector
RECURSIVE max_element(_, _, _, _)
max_element(degree, i, n, best) ==
    IF i >= n THEN best
    ELSE max_element(degree, i + 1, n, IF best < degree[i] THEN degree[i] ELSE best)

\* for (int d : degree) mean_degree += d
RECURSIVE DegreeSum(_, _, _)
DegreeSum(degree, i, n) ==
    IF i >= n THEN 0 ELSE degree[i] + DegreeSum(degree, i + 1, n)

\* max_possible_edges = (double)n_nodes * (n_nodes - 1) / 2.0 and
\* density = max_possible_edges > 0 ? n_edges / max_possible_edges : 0.0
Density(n_edges, n) ==
    LET max_possible_edges == (n * (n - 1)) \div 2
    IN  IF max_possible_edges > 0 THEN Quotient(n_edges, max_possible_edges)
        ELSE Quotient(0, 1)

\* the values a read through degree.end() of an empty vector can yield
\* when the read does not fault
Indeterminate == {-1, 0, 1}

\* the returned list of graph_stats_cpp
StatsList(n_edges, n, density, min_degree, max_degree, mean_degree) ==
    [n_edges |-> n_edges,
     n_nodes |-> n,
     density |-> density,
     degree_stats |-> [min |-> min_degree, max |-> max_degree, mean |-> mean_degree]]

\* Rcpp::List graph_stats_cpp(edges, n_nodes): the set of outcomes, each
\* with the degree vector as it is when the call ends.
\*   n_nodes < 0: the constructor of degree throws.
\*   n_nodes = 0: degree is empty, min_element and max_element return
\*     degree.end() and the code reads through it (undefined behaviour):
\*     the read faults, or yields some value; mean_degree is 0.0 / 0.
\*   n_nodes > 0: one result.
graph_stats_cpp(es, n) ==
    IF NegativeSize(n) THEN {[result |-> e, degree |-> <<>>] : e \in VectorTooLong}
    ELSE LET degree == DegreeLoop([k \in 0..(n - 1) |-> 0], es, 1, n)
             n_edges == Len(es)
         IN  IF n = 0
             THEN {[result |-> [crash |-> "SIGSEGV"], degree |-> degree]}
                  \cup {[result |-> StatsList(n_edges, n, Density(n_edges, n), a, b,
                                              Quotient(0, n)),
                         degree |-> degree] : a, b \in Indeterminate}
             ELSE {[result |-> StatsList(n_edges, n, Density(n_edges, n),
                                         min_element(degree, 0, n, degree[0]),
                                         max_element(degree, 0, n, degree[0]),
                                         Quotient(DegreeSum(degree, 0, n), n)),
                    degree |-> degree]}

InitStats ==
    /\ n_nodes \in 0..StatNodes
    /\ edges \in SeqsUpTo(Pairs(n_nodes), StatEdges)
    /\ data = <<>>
    /\ op = "none"
    /\ args = <<>>
    /\ ret = <<>>
    /\ locals = NoLocals

GraphStats ==
    /\ op = "none"
    /\ \E call \in graph_stats_cpp(edges, n_nodes) :
        /\ op' = "graph_stats"
        /\ args' = <<>>
        /\ ret' = call.result
        /\ locals' = [degree |-> call.degree]
        /\ UNCHANGED <<edges, n_nodes, data>>

NextStats == GraphStats

SpecStats == InitStats /\ [][NextStats]_vars

\* the graph entry points called with a negative or a zero node count
InitInvalid ==
    /\ n_nodes \in (0 - MaxNeg)..0
    /\ edges \in SeqsUpTo(Pairs(n_nodes), MaxEdges)
    /\ data = <<>>
    /\ op = "none"
    /\ args = <<>>
    /\ ret = <<>>
    /\ locals = NoLocals

NextInvalid ==
    FindComponents \/ AreConnected \/ ShortestPaths \/ GraphStats \/ GetEdgeComponents

SpecInvalid == InitInvalid /\ [][NextInvalid]_vars

\* ------------------------------------------ a UnionFind object on its own
\* a fresh UnionFind(n_nodes), kept in locals.uf, then any sequence of find
\* and union_sets calls with arguments in 0..n_nodes-1
InitUF ==
    /\ n_nodes \in 1..UFNodes
    /\ edges = <<>>
    /\ data = <<>>
    /\ op = "UnionFind"
    /\ args = <<>>
    /\ ret = <<>>
    /\ locals = [uf |-> UnionFind(n_nodes)]

Find ==
    /\ op \in {"UnionFind", "find", "union_sets"}
    /\ \E x \in 0..(n_nodes - 1) :
        LET call == find(locals.uf, x)
        IN  /\ op' = "find"
            /\ args' = [x |-> x]
            /\ ret' = call.ret
            /\ locals' = [uf |-> call.uf]
            /\ UNCHANGED <<edges, n_nodes, data>>

UnionSets ==
    /\ op \in {"UnionFind", "find", "union_sets"}
    /\ \E x, y \in 0..(n_nodes - 1) :
        LET call == union_sets(locals.uf, x, y)
        IN  /\ op' = "union_sets"
            /\ args' = [x |-> x, y |-> y]
            /\ ret' = call.ret
            /\ locals' = [uf |-> call.uf]
            /\ UNCHANGED <<edges, n_nodes, data>>

NextUF == Find \/ UnionSets

SpecUF == InitUF /\ [][NextUF]_vars

\* ------------------------------------------- what the claims refer to
Nodes == 0..(n_nodes - 1)

\* an input edge with both endpoints in [1, n_nodes]
ValidEdge(e) == e[1] \in 1..n_nodes /\ e[2] \in 1..n_nodes

\* the valid edges as 0-based pairs, in both directions
ValidPairs ==
    UNION {{<<edges[i][1] - 1, edges[i][2] - 1>>, <<edges[i][2] - 1, edges[i][1] - 1>>} :
              i \in {j \in 1..Len(edges) : ValidEdge(edges[j])}}

\* 0-based nodes joined by one valid edge
Adjacent(u, v) == <<u, v>> \in ValidPairs

\* the nodes joined to a node of S by a path over the pairs E
RECURSIVE Grow(_, _)
Grow(S, E) ==
    LET T == S \cup {e[2] : e \in {x \in E : x[1] \in S}}
    IN  IF T = S THEN S ELSE Grow(T, E)

\* the nodes joined to u by a path of valid edges
ComponentOfNode(u) == Grow({u}, ValidPairs)

Reachable(u, v) == v \in ComponentOfNode(u)

\* number of edges on a shortest path from u to v over the pairs E, -1 when
\* there is none
RECURSIVE LevelDist(_, _, _, _, _)
LevelDist(frontier, visited, v, d, E) ==
    IF v \in frontier THEN d
    ELSE LET next == {e[2] : e \in {x \in E : x[1] \in frontier /\ x[1] # x[2]}} \ visited
         IN  IF next = {} THEN -1
             ELSE LevelDist(next, visited \cup next, v, d + 1, E)

PathDist(u, v) == LevelDist({u}, {u}, v, 0, ValidPairs)

MinOf(S) == CHOOSE m \in S : \A x \in S : m <= x

RECURSIVE SumSeq(_)
SumSeq(q) == IF q = <<>> THEN 0 ELSE Head(q) + SumSeq(Tail(q))

\* the root a node's parent chain leads to, in a structure as it stands
RECURSIVE RootOf(_, _)
RootOf(uf, x) == IF uf.parent[x] = x THEN x ELSE RootOf(uf, uf.parent[x])

\* 1-based query endpoints in range
QueryInRange(q) == q[1] \in 1..n_nodes /\ q[2] \in 1..n_nodes

\* ----------------------------------------------------------------- C1
\* C1: find_components gives two in-range nodes the same id exactly when a
\* path of valid edges joins them, and exactly when are_connected answers
\* true for that pair on the same edges; inside any batch, are_connected
\* answers a query with that same truth value, and false when an endpoint
\* is out of range.
C1_Connectivity ==
    /\ op = "find_components" =>
          \A u, v \in Nodes :
              /\ (ret.components[u + 1] = ret.components[v + 1]) <=> Reachable(u, v)
              /\ (ret.components[u + 1] = ret.components[v + 1])
                    <=> are_connected_cpp(edges, << <<u + 1, v + 1>> >>, n_nodes)[1]
    /\ op = "are_connected" =>
          /\ Len(ret) = Len(args.query_pairs)
          /\ \A i \in 1..Len(ret) :
                LET q == args.query_pairs[i]
                IN  IF QueryInRange(q)
                    THEN /\ ret[i] = Reachable(q[1] - 1, q[2] - 1)
                         /\ \A c \in BOOLEAN :
                               LET comps == find_components_cpp(edges, n_nodes, c).components
                               IN  ret[i] = (comps[q[1]] = comps[q[2]])
                    ELSE ret[i] = FALSE

\* a batch whose first query joins two nodes that no single edge joins, and
\* whose second query has an out-of-range endpoint
C1_Witness ==
    /\ op = "are_connected"
    /\ Len(ret) = 2
    /\ QueryInRange(args.query_pairs[1])
    /\ ~QueryInRange(args.query_pairs[2])
    /\ ~Adjacent(args.query_pairs[1][1] - 1, args.query_pairs[1][2] - 1)
    /\ args.query_pairs[1][1] # args.query_pairs[1][2]
    /\ ret[1] = TRUE
    /\ ret[2] = FALSE

\* ----------------------------------------------------------------- C2
\* C2: with compress = true every node has one id in 1..n_components, every
\* such id is used, component_sizes has n_components entries, its k-th entry
\* counts the nodes with id k, and the sizes sum to n_nodes; edges
\* (1,2),(2,3) with n_nodes = 4 give [1,1,1,2], [3,1] and 2.
C2_Partition ==
    (op = "find_components" /\ args.compress) =>
        /\ Len(ret.components) = n_nodes
        /\ \A i \in 1..n_nodes : ret.components[i] \in 1..ret.n_components
        /\ \A k \in 1..ret.n_components : \E i \in 1..n_nodes : ret.components[i] = k
        /\ Len(ret.component_sizes) = ret.n_components
        /\ \A k \in 1..ret.n_components :
              ret.component_sizes[k] =
                  Cardinality({i \in 1..n_nodes : ret.components[i] = k})
        /\ SumSeq(ret.component_sizes) = n_nodes
        /\ (edges = << <<1, 2>>, <<2, 3>> >> /\ n_nodes = 4) =>
              /\ ret.components = <<1, 1, 1, 2>>
              /\ ret.component_sizes = <<3, 1>>
              /\ ret.n_components = 2

\* the example of the claim has been run
C2_Witness ==
    /\ op = "find_components"
    /\ args.compress
    /\ edges = << <<1, 2>>, <<2, 3>> >>
    /\ n_nodes = 4
    /\ ret.component_sizes = <<3, 1>>

\* ----------------------------------------------------------------- C3
\* C3: with compress = false each node is labelled with the 0-based index of
\* the root of its set (find_components and get_edge_components alike),
\* find_components returns no component sizes, and the n_components it
\* returns is the number of distinct components, as with compress = true.
C3_Uncompressed ==
    /\ (op = "find_components" /\ ~args.compress) =>
          /\ \A i \in Nodes : ret.components[i + 1] = RootOf(locals.uf, i)
          /\ ret.component_sizes = <<>>
          /\ ret.n_components = Cardinality({MinOf(ComponentOfNode(i)) : i \in Nodes})
          /\ ret.n_components = find_components_cpp(edges, n_nodes, TRUE).n_components
    /\ (op = "get_edge_components" /\ ~args.compress) =>
          \A i \in 1..Len(edges) :
              ValidEdge(edges[i]) =>
                  /\ ret.from_components[i] = RootOf(locals.uf, edges[i][1] - 1)
                  /\ ret.to_components[i] = RootOf(locals.uf, edges[i][2] - 1)

\* the part of C3 that does not involve n_components
C3_RawLabels ==
    /\ (op = "find_components" /\ ~args.compress) =>
          /\ \A i \in Nodes : ret.components[i + 1] = RootOf(locals.uf, i)
          /\ ret.component_sizes = <<>>
    /\ (op = "get_edge_components" /\ ~args.compress) =>
          \A i \in 1..Len(edges) :
              ValidEdge(edges[i]) =>
                  /\ ret.from_components[i] = RootOf(locals.uf, edges[i][1] - 1)
                  /\ ret.to_components[i] = RootOf(locals.uf, edges[i][2] - 1)

\* what the code returns as n_components when compress = false
C3_CountIsZero ==
    (op \in {"find_components", "get_edge_components"} /\ ~args.compress) =>
        ret.n_components = 0

\* ----------------------------------------------------------------- C4
\* C4: with compress = true ids follow the order in which components are
\* first met scanning nodes 0, 1, ...: node 0 has id 1, the first node with
\* id k+1 comes after the first node with id k, and so the ids depend only
\* on which nodes are joined (the id of a node is the number of components
\* whose smallest node is not larger than the smallest node of its own).
FirstNode(k) == MinOf({i \in 1..n_nodes : ret.components[i] = k})

C4_DiscoveryOrder ==
    (op = "find_components" /\ args.compress) =>
        /\ n_nodes >= 1 => ret.components[1] = 1
        /\ \A k \in 1..(ret.n_components - 1) : FirstNode(k) < FirstNode(k + 1)
        /\ LET E == ValidPairs
               smallest == [i \in Nodes |-> MinOf(Grow({i}, E))]
               leaders == {smallest[i] : i \in Nodes}
           IN  \A i \in Nodes :
                   ret.components[i + 1] =
                       Cardinality({m \in leaders : m <= smallest[i]})

\* node 0 is not the root of its set, and a later component exists
C4_Witness ==
    /\ op = "find_components"
    /\ args.compress
    /\ n_nodes >= 3
    /\ RootOf(locals.uf, 0) # 0
    /\ ret.n_components >= 2
    /\ ret.components[1] = 1

\* ----------------------------------------------------------------- C5
\* C5: get_edge_components returns one from entry and one to entry per input
\* edge, in edge order; for a valid edge they are the ids find_components
\* gives its endpoints for the same arguments (hence equal), for an edge with
\* an out-of-range endpoint both are 0 (compress) or -1 (no compress).
C5_EdgeComponents ==
    op = "get_edge_components" =>
        LET fc == find_components_cpp(edges, n_nodes, args.compress)
        IN  /\ Len(ret.from_components) = Len(edges)
            /\ Len(ret.to_components) = Len(edges)
            /\ \A i \in 1..Len(edges) :
                  IF ValidEdge(edges[i])
                  THEN /\ ret.from_components[i] = fc.components[edges[i][1]]
                       /\ ret.to_components[i] = fc.components[edges[i][2]]
                       /\ ret.from_components[i] = ret.to_components[i]
                  ELSE /\ ret.from_components[i] = (IF args.compress THEN 0 ELSE -1)
                       /\ ret.to_components[i] = (IF args.compress THEN 0 ELSE -1)

\* an invalid edge before a valid one, with compress = true
C5_Witness ==
    /\ op = "get_edge_components"
    /\ args.compress
    /\ Len(edges) = 2
    /\ ~ValidEdge(edges[1])
    /\ ValidEdge(edges[2])
    /\ edges[2][1] # edges[2][2]
    /\ ret.from_components[1] = 0
    /\ ret.from_components[2] >= 2

\* ----------------------------------------------------------------- C6
\* C6: each query of a shortest_paths batch is answered on its own: -1 for an
\* out-of-range endpoint, 0 for equal in-range endpoints, otherwise the
\* length d of a shortest path of valid non-self-loop edges when there is one
\* and max_distance <= 0 or d <= max_distance, and -1 when there is no path
\* or d > max_distance; no answer exceeds a positive max_distance.
ExpectedDistance(q, max_distance) ==
    IF ~QueryInRange(q) THEN -1
    ELSE IF q[1] = q[2] THEN 0
    ELSE LET d == PathDist(q[1] - 1, q[2] - 1)
         IN  IF d = -1 THEN -1
             ELSE IF max_distance <= 0 \/ d <= max_distance THEN d
             ELSE -1

C6_ShortestPaths ==
    op = "shortest_paths" =>
        /\ Len(ret) = Len(args.query_pairs)
        /\ \A i \in 1..Len(ret) :
              /\ ret[i] = ExpectedDistance(args.query_pairs[i], args.max_distance)
              /\ args.max_distance > 0 => ret[i] <= args.max_distance

\* one batch with a path of length 2 cut off by max_distance = 1 and a path
\* of length 1 reported
C6_Witness ==
    /\ op = "shortest_paths"
    /\ args.max_distance = 1
    /\ Len(ret) = 2
    /\ QueryInRange(args.query_pairs[1])
    /\ PathDist(args.query_pairs[1][1] - 1, args.query_pairs[1][2] - 1) = 2
    /\ ret[1] = -1
    /\ ret[2] = 1

\* ------------------------------- what the grouping claims refer to
GroupCalled == op = "multi_column_group" /\ ret.group_ids # <<>>

Rows == 0..(Len(ret.group_ids) - 1)

\* the cell of a column at a row gives a key
HasKey(column, row) ==
    /\ column.type \in {"STRSXP", "INTSXP", "REALSXP"}
    /\ row < Len(column.cells)
    /\ ~column.cells[row + 1].na

\* the normalized key of such a cell
KeyOf(column, row) ==
    LET v == column.cells[row + 1].v
    IN  IF column.type = "STRSXP"
        THEN (IF args.case_sensitive THEN v ELSE LowerCase(v))
        ELSE IF column.type = "INTSXP" THEN IntToString(v)
        ELSE DoubleToString(v)

RowKeys(row) ==
    {KeyOf(data[c], row) : c \in {c \in 1..Len(data) : HasKey(data[c], row)}}

\* a key that is empty or in the incomparable set, after the case rule
Excluded(key) ==
    \/ key = <<>>
    \/ \E i \in 1..Len(args.incomparables) :
          key = (IF args.case_sensitive THEN args.incomparables[i]
                 ELSE LowerCase(args.incomparables[i]))

\* two rows share a key that is not excluded
Linked(r1, r2) == \E k \in RowKeys(r1) \cap RowKeys(r2) : ~Excluded(k)

RECURSIVE GrowRows(_)
GrowRows(S) ==
    LET T == S \cup {r \in Rows : \E w \in S : Linked(w, r)}
    IN  IF T = S THEN S ELSE GrowRows(T)

\* rows in one set of the union-find structure at return
SameComponent(r1, r2) == RootOf(locals.uf, r1) = RootOf(locals.uf, r2)

ComponentOf(r) == {x \in Rows : SameComponent(r, x)}

\* the rows listed under a key of value_to_rows
RowsOf(k) == {locals.value_to_rows[k][j] : j \in 1..Len(locals.value_to_rows[k])}

\* two rows are listed under one key of value_to_rows
Share(r1, r2) ==
    \E k \in DOMAIN locals.value_to_rows : r1 \in RowsOf(k) /\ r2 \in RowsOf(k)

RECURSIVE GrowShared(_)
GrowShared(S) ==
    LET T == S \cup {x \in Rows : \E w \in S : Share(w, x)}
    IN  IF T = S THEN S ELSE GrowShared(T)

\* ----------------------------------------------------------------- C7
\* C7: no key that is empty or in the incomparable set (after the case rule)
\* is a key of value_to_rows, whatever the type of the column it came from,
\* and rows not joined by a chain of non-excluded shared keys are never in
\* the same group.
C7_ExcludedKeys ==
    GroupCalled =>
        /\ \A k \in DOMAIN locals.value_to_rows : ~Excluded(k)
        /\ \A r1, r2 \in Rows : SameComponent(r1, r2) => r2 \in GrowRows({r1})

\* what does hold: a key of a string cell is never entered when excluded
C7_StringKeysOnly ==
    GroupCalled =>
        \A k \in DOMAIN locals.value_to_rows :
            Excluded(k) =>
                \A r \in RowsOf(k) :
                    \E c \in 1..Len(data) :
                        /\ HasKey(data[c], r)
                        /\ data[c].type # "STRSXP"
                        /\ KeyOf(data[c], r) = k

\* ----------------------------------------------------------------- C8
\* C8: value_map has an entry for a key exactly when at least two rows
\* contributed it (one row carrying the value in several columns does not
\* count), and the entry lists the contributing rows as 1-based indices.
C8_ValueMap ==
    GroupCalled =>
        /\ \A k \in DOMAIN locals.value_to_rows :
              (\E e \in 1..Len(ret.value_map) : ret.value_map[e].name = k)
                  <=> Cardinality(RowsOf(k)) >= 2
        /\ \A e \in 1..Len(ret.value_map) :
              /\ ret.value_map[e].name \in DOMAIN locals.value_to_rows
              /\ {ret.value_map[e].rows[j] : j \in 1..Len(ret.value_map[e].rows)}
                     = {r + 1 : r \in RowsOf(ret.value_map[e].name)}
        /\ \A e1, e2 \in 1..Len(ret.value_map) :
              ret.value_map[e1].name = ret.value_map[e2].name => e1 = e2

\* what does hold: an entry exactly for the keys pushed at least twice
C8_PushedTwice ==
    GroupCalled =>
        /\ \A k \in DOMAIN locals.value_to_rows :
              (\E e \in 1..Len(ret.value_map) : ret.value_map[e].name = k)
                  <=> Len(locals.value_to_rows[k]) >= 2
        /\ \A e \in 1..Len(ret.value_map) :
              /\ ret.value_map[e].name \in DOMAIN locals.value_to_rows
              /\ ret.value_map[e].rows =
                    [j \in 1..Len(ret.value_map[e].rows) |->
                        locals.value_to_rows[ret.value_map[e].name][j] + 1]

\* ----------------------------------------------------------------- C9
\* C9: two rows are in the same component exactly when a chain of rows joins
\* them in which consecutive rows share a non-excluded key; when the
\* component has at least min_group_size rows its rows share one nonzero
\* group id, and rows of different components have different ids.
C9_TransitiveGroups ==
    GroupCalled =>
        /\ \A r1, r2 \in Rows : SameComponent(r1, r2) <=> r2 \in GrowRows({r1})
        /\ \A r1, r2 \in Rows :
              Cardinality(GrowRows({r1})) >= args.min_group_size =>
                  /\ ret.group_ids[r1 + 1] # 0
                  /\ r2 \in GrowRows({r1}) <=>
                         ret.group_ids[r1 + 1] = ret.group_ids[r2 + 1]

\* what does hold: the components are the chains over the keys in
\* value_to_rows, and ids separate exactly the components
C9_ChainsOfEnteredKeys ==
    GroupCalled =>
        /\ \A r1, r2 \in Rows : SameComponent(r1, r2) <=> r2 \in GrowShared({r1})
        /\ \A r1, r2 \in Rows :
              Cardinality(ComponentOf(r1)) >= args.min_group_size =>
                  /\ ret.group_ids[r1 + 1] # 0
                  /\ SameComponent(r1, r2) <=>
                         ret.group_ids[r1 + 1] = ret.group_ids[r2 + 1]

\* three rows chained by two different keys end in one group
C9_ChainReached ==
    /\ GroupCalled
    /\ Len(ret.group_ids) = 3
    /\ Linked(0, 1) /\ Linked(1, 2) /\ ~Linked(0, 2)
    /\ ret.group_ids = <<1, 1, 1>>

\* ---------------------------------------------------------------- C10
\* C10: a row has group id 0 exactly when its component has fewer than
\* min_group_size rows; the other components are numbered 1, 2, ... in the
\* order their first rows come; n_groups is the number of distinct nonzero
\* ids and the length of group_sizes; the k-th size counts the rows with id
\* k; zeros plus the sizes make n_rows; with min_group_size = 1 a row that
\* contributed no key is a group of size 1.
RowsWithId(k) == {r \in Rows : ret.group_ids[r + 1] = k}

C10_GroupIds ==
    GroupCalled =>
        /\ Len(ret.group_ids) = locals.n_rows
        /\ \A r \in Rows :
              ret.group_ids[r + 1] = 0
                  <=> Cardinality(ComponentOf(r)) < args.min_group_size
        /\ \A r1, r2 \in Rows :
              ret.group_ids[r1 + 1] # 0 =>
                  (ret.group_ids[r1 + 1] = ret.group_ids[r2 + 1]
                       <=> SameComponent(r1, r2))
        /\ {ret.group_ids[r + 1] : r \in Rows} \ {0} = 1..ret.n_groups
        /\ \A k \in 1..(ret.n_groups - 1) :
              MinOf(RowsWithId(k)) < MinOf(RowsWithId(k + 1))
        /\ Len(ret.group_sizes) = ret.n_groups
        /\ \A k \in 1..ret.n_groups :
              ret.group_sizes[k] = Cardinality(RowsWithId(k))
        /\ Cardinality(RowsWithId(0)) + SumSeq(ret.group_sizes) = Len(ret.group_ids)
        /\ args.min_group_size = 1 =>
              \A r \in Rows :
                  (\A k \in DOMAIN locals.value_to_rows : r \notin RowsOf(k)) =>
                      /\ ret.group_ids[r + 1] # 0
                      /\ RowsWithId(ret.group_ids[r + 1]) = {r}
                      /\ ret.group_sizes[ret.group_ids[r + 1]] = 1

\* a row below the threshold before a group that meets it
C10_Witness ==
    /\ GroupCalled
    /\ args.min_group_size = 2
    /\ ret.group_ids = <<0, 1, 1>>
    /\ ret.group_sizes = <<2>>
    /\ ret.n_groups = 1

\* ------------------------------------------------------------------ C11
MatchCalled == op \in {"multi_grepl", "multi_grepl_any", "multi_grepl_any_fast"}

\* what the three entry points return for the arguments of the last call
GridOf == multi_grepl_cpp(data.strings, data.patterns, FALSE, args.ignore_case,
                          data.locale)
AnyOf == multi_grepl_any_cpp(data.strings, data.patterns, args.ignore_case,
                             data.locale)
FastOf ==
    {multi_grepl_any_fast_cpp(data.strings, data.patterns, args.ignore_case, sorted) :
        sorted \in SortedByLength(PatternData(data.patterns, args.ignore_case))}

\* OR over all patterns j of grid[i][j]
RowOr(grid, i) == \E j \in 1..Len(grid[i]) : grid[i][j]

\* the three entry points agree on the arguments of the last call, and the
\* last call returned the agreed value
MatchersAgree ==
    /\ \A fast \in FastOf :
        /\ fast = AnyOf
        /\ \A i \in 1..Len(data.strings) : fast[i] = RowOr(GridOf, i)
    /\ op = "multi_grepl_any" => ret = AnyOf
    /\ op = "multi_grepl_any_fast" => ret \in FastOf
    /\ op = "multi_grepl" =>
        /\ Len(ret) = Len(data.strings)
        /\ \A i \in 1..Len(ret) :
            IF args.match_any THEN ret[i] = <<AnyOf[i]>>
            ELSE /\ Len(ret[i]) = Len(data.patterns)
                 /\ RowOr(ret, i) = AnyOf[i]
    /\ data.patterns = <<>> =>
        \A i \in 1..Len(data.strings) : ~AnyOf[i] /\ \A fast \in FastOf : ~fast[i]

\* C11: for every batch of strings, every pattern set and both values of
\* ignore_case, multi_grepl_any and multi_grepl_any_fast return the same
\* boolean for every string, equal to the OR over the patterns of the
\* matrix of multi_grepl; with an empty pattern set every result is false.
C11_MatchersAgree == MatchCalled => MatchersAgree

\* a byte above 127 that ::tolower may change and the c += 32 loop never does
NonAscii(s) == \E i \in 1..Len(s) : CharCode(s[i]) > 127

\* C11, the part the code keeps: the three entry points agree when the
\* match is case-sensitive, when the process runs in the "C" locale, and
\* when no string or pattern has a byte above 127.
C11_AgreeOnAscii ==
    (/\ MatchCalled
     /\ \/ ~args.ignore_case
        \/ data.locale = "C"
        \/ /\ \A i \in 1..Len(data.strings) : ~NonAscii(data.strings[i])
           /\ \A p \in 1..Len(data.patterns) : ~NonAscii(data.patterns[p]))
    => MatchersAgree

\* C11: the fast variant has sorted two patterns by length and answered a
\* string that holds the shorter one only after case folding
C11_FastAnswered ==
    /\ op = "multi_grepl_any_fast"
    /\ args.ignore_case
    /\ data.strings = <<<<"a", "A">>>>
    /\ data.patterns = <<<<"A", "a">>, <<"A">>>>
    /\ locals.pattern_data[1].second = 1
    /\ ret = <<TRUE>>

\* ------------------------------------------------------------------ C12
\* the call returned a list (it neither threw nor faulted)
Returned == "error" \notin DOMAIN ret /\ "crash" \notin DOMAIN ret

\* edges with both endpoints in range and distinct endpoints
Counted == {i \in 1..Len(edges) : ValidEdge(edges[i]) /\ edges[i][1] # edges[i][2]}

\* number of endpoints of counted edges at node k
EndpointsAt(k) ==
    Cardinality({x \in Counted \X {1, 2} : edges[x[1]][x[2]] - 1 = k})

\* two quotients denote the same number
SameNumber(a, b) == a.den # 0 /\ b.den # 0 /\ a.num * b.den = b.num * a.den

GraphStatsAsStated ==
    /\ Returned
    /\ locals.degree = [k \in Nodes |-> EndpointsAt(k)]
    /\ DegreeSum(locals.degree, 0, n_nodes) = 2 * Cardinality(Counted)
    /\ n_nodes >= 1 =>
        /\ \A k \in Nodes : ret.degree_stats.min <= EndpointsAt(k)
        /\ \E k \in Nodes : ret.degree_stats.min = EndpointsAt(k)
        /\ \A k \in Nodes : ret.degree_stats.max >= EndpointsAt(k)
        /\ \E k \in Nodes : ret.degree_stats.max = EndpointsAt(k)
        /\ SameNumber(ret.degree_stats.mean,
                      Quotient(2 * Cardinality(Counted), n_nodes))
    /\ IF n_nodes < 2 THEN SameNumber(ret.density, Quotient(0, 1))
       ELSE SameNumber(ret.density, Quotient(2 * Len(edges), n_nodes * (n_nodes - 1)))

\* C12: graph_stats counts, for each node, the endpoints of the edges with
\* both endpoints in range and u != v (repeated edges each time, so the
\* degree sum is twice the number of such edges), reports min, max and
\* mean = sum / n_nodes over all nodes, and reports as density the raw edge
\* count divided by n_nodes*(n_nodes-1)/2, which is 0 whenever n_nodes < 2.
C12_GraphStats == op = "graph_stats" => GraphStatsAsStated

\* C12, the part the code keeps: the statement holds for every graph with
\* at least one node.
C12_FromOneNode == (op = "graph_stats" /\ n_nodes >= 1) => GraphStatsAsStated

\* C12: edges (1,2),(1,3) with n = 3 give min 1, max 2, degree sum 4 and
\* density 2/3
C12_Example ==
    /\ op = "graph_stats"
    /\ n_nodes = 3
    /\ edges = <<<<1, 2>>, <<1, 3>>>>
    /\ ret.degree_stats.min = 1
    /\ ret.degree_stats.max = 2
    /\ ret.degree_stats.mean = Quotient(4, 3)
    /\ ret.density = Quotient(2, 3)

\* C12: an empty graph makes graph_stats read through degree.end()
C12_EmptyGraphFaults == op = "graph_stats" /\ n_nodes = 0 /\ ~Returned

\* ------------------------------------------------------------------ C13
GraphCalled ==
    op \in {"find_components", "are_connected", "shortest_paths", "graph_stats",
            "get_edge_components"}

\* the call failed: an exception left the function and no list or vector
\* was returned
Failed == DOMAIN ret = {"error"}

RECURSIVE Climb(_, _, _)
Climb(uf, x, k) ==
    IF uf.parent[x] = x THEN x
    ELSE IF k = 0 THEN -1
    ELSE Climb(uf, uf.parent[x], k - 1)

\* number of parent steps from x to its root
RECURSIVE Depth(_, _)
Depth(uf, x) == IF uf.parent[x] = x THEN 0 ELSE 1 + Depth(uf, uf.parent[x])

\* every parent chain ends at a root, and the tree below each root is no
\* higher than the root's rank
WellFormed(uf) ==
    /\ \A x \in Nodes : uf.parent[x] \in Nodes /\ Climb(uf, x, n_nodes) # -1
    /\ \A x \in Nodes : Depth(uf, x) <= uf.rank[RootOf(uf, x)]

\* the sets of the structure are the same in u and w
SameSets(u, w) ==
    \A a, b \in Nodes : (RootOf(u, a) = RootOf(u, b)) <=> (RootOf(w, a) = RootOf(w, b))

\* one call takes the structure from u to w
FindStep(u, w) ==
    /\ ret' = RootOf(u, args'.x)
    /\ w.rank = u.rank
    /\ \A a \in Nodes : RootOf(w, a) = RootOf(u, a)

UnionStep(u, w) ==
    LET px == RootOf(u, args'.x)
        py == RootOf(u, args'.y)
    IN  IF px = py
        THEN /\ ret' = FALSE
             /\ w.rank = u.rank
             /\ \A a \in Nodes : RootOf(w, a) = RootOf(u, a)
        ELSE LET top == IF u.rank[px] < u.rank[py] THEN py ELSE px
                 low == IF u.rank[px] < u.rank[py] THEN px ELSE py
             IN  /\ ret' = TRUE
                 /\ w.parent[low] = top
                 /\ w.parent[top] = top
                 /\ \A a \in Nodes :
                        RootOf(w, a) = IF RootOf(u, a) = low THEN top ELSE RootOf(u, a)
                 /\ w.rank = IF u.rank[px] = u.rank[py]
                             THEN [u.rank EXCEPT ![px] = @ + 1]
                             ELSE u.rank

UFStep ==
    /\ \A x \in Nodes : locals'.uf.rank[x] >= locals.uf.rank[x]
    /\ op' = "find" => FindStep(locals.uf, locals'.uf)
    /\ op' = "union_sets" => UnionStep(locals.uf, locals'.uf)

UFWellFormed == WellFormed(locals.uf)

\* C14: after any sequence of find and union_sets calls with in-range
\* arguments on a fresh UnionFind(n): every parent chain reaches a root
\* without a cycle and the tree below a root is no higher than the root's
\* rank; no rank ever decreases; find returns the root and changes no set;
\* union_sets returns false and merges nothing when x and y share a root,
\* and otherwise returns true, puts the lower-rank root under the
\* higher-rank root, and on equal ranks puts y's root under x's root and
\* increments only the rank of x's root.
C14_UnionFind == []UFWellFormed /\ [][UFStep]_vars

\* C14: two trees of rank 1 were united into a tree of rank 2 and height 2
C14_Witness ==
    /\ op = "union_sets"
    /\ ret = TRUE
    /\ n_nodes = 4
    /\ args = [x |-> 0, y |-> 2]
    /\ locals.uf.parent = [k \in 0..3 |-> IF k = 3 THEN 2 ELSE 0]
    /\ locals.uf.rank[0] = 2
    /\ Depth(locals.uf, 3) = 2

\* ------------------------------------------------------------------ C15
\* the columns that are not NULL and have a nonzero length
Sized == {c \in 1..Len(data) : data[c].type # "NILSXP" /\ Len(data[c].cells) # 0}

\* the column of row `row` gives key k to value_to_rows when the row count is n
Contributes(c, row, k, n) ==
    /\ row < n
    /\ HasKey(data[c], row)
    /\ KeyOf(data[c], row) = k
    /\ data[c].type = "STRSXP" => ~Excluded(k)

\* how many times row occurs in a vector of rows
Occurrences(rows, row) == Cardinality({j \in 1..Len(rows) : rows[j] = row})

\* the keys the cells of data can give
CellKeys ==
    {KeyOf(data[x[1]], x[2]) :
        x \in {y \in (1..Len(data)) \X (0..(MaxRows - 1)) : HasKey(data[y[1]], y[2])}}

C15_SkippedColumns ==
    /\ op = "multi_column_group"
    /\ Len(data) = 2
    /\ data[1].type # "NILSXP"
    /\ Len(data[1].cells) = 0
    /\ Len(ret.group_ids) = Len(data[2].cells)
    /\ Len(ret.group_ids) > 1

====
